---- MODULE Spec2Model ----
(***************************************************************************)
(* State-machine model of the audio broadcaster:                           *)
(*   Station.start_fill_buffer   (the ingestion loop, station.py)          *)
(*   AudioHandler.get            (one client session, station_server.py)   *)
(* Both are asyncio coroutines run by one event loop.  A coroutine keeps   *)
(* the thread until it reaches an `await asyncio.sleep(...)`, so a step of *)
(* a coroutine is one stretch of its code between two suspension points;   *)
(* a session's stretch through the Transcoder is taken in two steps,       *)
(* during which no other coroutine runs.                                   *)
(***************************************************************************)
EXTENDS Integers, Sequences, FiniteSets, TLC

\* ---------------------------------------------------------------- constants
CHUNK == 4096
RATE == 44100
BUFFER_DURATION == 5

\* Station.__init__'s default and the value the loop assigns in each iteration
DefaultMaxReconnectionAttempts == 5
LoopMaxReconnectionAttempts == 5

\* ------------------------------------------------------------------- bounds
\* Station.max_buffer_len (default 1000) and
\* AudioHandler.client_buffer_min_length (default 50), scaled down
max_buffer_len == 4
client_buffer_min_length == 2
NumSessions == 2

Sessions == 1..NumSessions

\* a value given to Station.max_reconnection_attempts before the loop is started
ConfiguredAttempts == 2

\* output.mp3 is read CHUNK bytes at a time; here, this many encoded blocks
Mp3BlocksPerRead == 2

\* sizes socket.recv(CHUNK) returns for a non-empty read: a full and a short one
ReadSizes == {CHUNK, CHUNK \div 2}

\* an Optional[int]: None, or the sequence of its one value
None == << >>
Some(n) == <<n>>

VARIABLES
    \* Station
    buffer,                     \* the timeline: a sequence of frames
    current_pos,
    connected_mic,              \* Station._connected_mic
    max_reconnection_attempts,
    \* locals of start_fill_buffer
    reconnection_attemps,
    audio_buffer,               \* number of bytes in the accumulation buffer
    fill_pc,                    \* the await the loop is at: "sleep", "backoff";
                                \* "idle" before it is started, "done" once left
    \* AudioHandler, one per session
    is_client_connected,
    from_pos,
    client_buffer,              \* the slice of the iteration that is under way
    get_pc,                     \* "new", "sleep", "transmit", "closed", "failed"
    \* history variables
    connect_attempts,           \* connect() calls made by the loop
    consecutive_failures,       \* failed connect() calls since the last success
    held_over,                  \* the accumulation buffer held bytes at the latest
                                \* successful reconnect, and no frame was cut since
    lost_in_outage,             \* a reconnect has emptied a timeline that held
                                \* frames, and no read has delivered data since
    cursor_stale,               \* the timeline was reset since from_pos was last set
    \* the Transcoder's files, shared by every session, and the transport
    output_wav,                 \* output.wav: the blocks of samples written
    output_mp3,                 \* output.mp3: the encoded blocks
    last_flush                  \* the latest flush: the session and its chunks

stationVars == <<buffer, current_pos, connected_mic, max_reconnection_attempts>>
fillVars == <<reconnection_attemps, audio_buffer, fill_pc>>
fillHist == <<connect_attempts, consecutive_failures, held_over, lost_in_outage>>
getVars == <<is_client_connected, from_pos, client_buffer, get_pc>>
getHist == <<cursor_stale>>
outVars == <<output_wav, output_mp3, last_flush>>
vars == <<stationVars, fillVars, fillHist, getVars, getHist, outVars>>

\* ------------------------------------------------------------ pure helpers
\* a frame: the bytes cut from the accumulation buffer; idx is its index in
\* the timeline, old tells that it was appended before the latest successful
\* reconnect
Frame(idx, nbytes) == [idx |-> idx, len |-> nbytes, old |-> FALSE]

\* the frames of buf, once the connection they were read from is replaced
Outdated(buf) == [i \in 1..Len(buf) |-> [buf[i] EXCEPT !.old = TRUE]]

Min(a, b) == IF a < b THEN a ELSE b

\* a slice that starts one frame late
PySlice_late(seq, start) ==
    LET n == Len(seq)
        lo == IF start + 1 > n THEN n ELSE start + 1
    IN  [i \in 1..(n - lo) |-> seq[lo + i]]

\* Python's seq[start:] on a list
PySlice(seq, start) ==
    LET n == Len(seq)
        lo == IF start < 0
              THEN (IF start + n < 0 THEN 0 ELSE start + n)
              ELSE (IF start > n THEN n ELSE start)
    IN  [i \in 1..(n - lo) |-> seq[lo + i]]

\* the frame is dropped instead of appended
add_frame_to_buffer_lost(buf, frame) == buf

\* Station.add_frame_to_buffer: the new buffer
add_frame_to_buffer(buf, frame) == Append(buf, frame)

\* Station.set_emtpy_buffer: the new buffer
set_emtpy_buffer(buf) == << >>

\* the starting cursor without the test for an empty timeline
StartPos_last(buf) == Len(buf) - 1

\* the cursor a session takes when it starts
StartPos(buf) == IF Len(buf) > 0 THEN Len(buf) - 1 ELSE 0

\* the cursor is set back to the start of the timeline
NextPos_start(buf) == 0

\* output.wav opened for appending: the new blocks follow the old ones
WaveFile_append(prev, slice) ==
    prev \o [i \in 1..Len(slice) |->
                [src |-> slice[i].idx, old |-> slice[i].old, wav |-> TRUE]]

\* wave.open(..., "wb") and a writeframes per frame: output.wav is replaced by
\* one block of samples for each frame of the slice, in the slice's order
WaveFile(prev, slice) ==
    [i \in 1..Len(slice) |->
        [src |-> slice[i].idx, old |-> slice[i].old, wav |-> TRUE]]

\* AudioSegment.from_file(...).export(..., format="mp3"): output.mp3 is
\* replaced by the encoding of output.wav, block by block
Export(wav) == [i \in 1..Len(wav) |-> [wav[i] EXCEPT !.wav = FALSE]]

\* the chunks f.read(CHUNK) returns until the file is exhausted
RECURSIVE ReadChunks(_)
ReadChunks(mp3) ==
    IF mp3 = << >>
    THEN << >>
    ELSE <<SubSeq(mp3, 1, Min(Mp3BlocksPerRead, Len(mp3)))>> \o
         ReadChunks(SubSeq(mp3, Min(Mp3BlocksPerRead, Len(mp3)) + 1, Len(mp3)))

\* the cursor a session takes after a transmit
NextPos(buf) == Len(buf) - 1

\* the timeline after a successful reconnect, with the reset left out
AfterReconnect_kept(buf) == Outdated(buf)

\* the timeline after a successful reconnect: connect(), then set_emtpy_buffer()
AfterReconnect(buf) == set_emtpy_buffer(Outdated(buf))

\* the eviction test with > for >=
MustEvict_late(buf) == Len(buf) > max_buffer_len

\* the eviction test at the top of the loop
MustEvict(buf) == Len(buf) >= max_buffer_len

\* a frame is cut as soon as a frame's worth of bytes is held
MustCut_chunk(nbytes) == nbytes >= CHUNK

\* the frame-cut test after a read
MustCut(nbytes) == nbytes >= RATE * BUFFER_DURATION

\* the retry test with < for <=
MayRetry_strict(attempts, maxAttempts) == attempts < maxAttempts

\* the retry test in the exception handler
MayRetry(attempts, maxAttempts) == attempts <= maxAttempts

\* the backpressure test that lets any non-empty slice through
MustWait_empty(slice) == Len(slice) < 1

\* the backpressure test of a session
MustWait(slice) == Len(slice) < client_buffer_min_length

\* ------------------------------------------------------------------- Init
InitWith(maxAttempts) ==
    /\ buffer = << >>
    /\ current_pos = None
    /\ connected_mic = FALSE
    /\ max_reconnection_attempts = maxAttempts
    /\ reconnection_attemps = 0
    /\ audio_buffer = 0
    /\ fill_pc = "idle"
    /\ is_client_connected = [s \in Sessions |-> TRUE]
    /\ from_pos = [s \in Sessions |-> None]
    /\ client_buffer = [s \in Sessions |-> << >>]
    /\ get_pc = [s \in Sessions |-> "new"]
    /\ connect_attempts = 0
    /\ consecutive_failures = 0
    /\ held_over = FALSE
    /\ lost_in_outage = FALSE
    /\ cursor_stale = [s \in Sessions |-> FALSE]
    /\ output_wav = << >>
    /\ output_mp3 = << >>
    /\ last_flush = [to |-> 0, chunks |-> << >>]

Init == InitWith(DefaultMaxReconnectionAttempts)

\* The coroutines share one thread: a step runs a coroutine from one await to
\* its next one. A session that is between its slice and its cursor update
\* (get_pc = "transmit", where nothing is awaited) still holds the thread.
Idle == \A s \in Sessions : get_pc[s] # "transmit"

\* a reset of the timeline makes every cursor set before it a cursor of a
\* prior epoch
StaleAfterReset == [s \in Sessions |-> get_pc[s] # "new"]

NewEpoch(reset) ==
    cursor_stale' = IF reset THEN StaleAfterReset ELSE cursor_stale

\* ------------------------------------------------- Station / ingestion loop
\* Station.connect, called before the loop is started
Connect ==
    /\ Idle
    /\ fill_pc = "idle"
    /\ ~connected_mic
    /\ connected_mic' = TRUE
    /\ UNCHANGED <<buffer, current_pos, max_reconnection_attempts, fillVars,
                   fillHist, getVars, getHist, outVars>>

\* the eviction at the top of an iteration: the timeline and current_pos
Top(buf, pos) ==
    IF MustEvict(buf)
    THEN [buf |-> set_emtpy_buffer(buf), pos |-> None, reset |-> TRUE]
    ELSE [buf |-> buf, pos |-> pos, reset |-> FALSE]

\* An iteration is entered with timeline buf, current_pos pos and connection
\* flag conn, and runs to its first await: to the sleep before the read, or,
\* when assert_microphone_connected raises, to the backoff of the handler.
EnterIteration(buf, pos, conn, reset) ==
    /\ IF conn
       THEN /\ max_reconnection_attempts' = LoopMaxReconnectionAttempts
            /\ buffer' = Top(buf, pos).buf
            /\ current_pos' = Top(buf, pos).pos
            /\ fill_pc' = "sleep"
       ELSE /\ UNCHANGED max_reconnection_attempts
            /\ buffer' = buf
            /\ current_pos' = pos
            /\ fill_pc' = "backoff"
    /\ NewEpoch(reset \/ (conn /\ Top(buf, pos).reset))

\* the task is started: the locals are set and the first iteration is entered
StartFillBuffer ==
    /\ Idle
    /\ fill_pc = "idle"
    /\ reconnection_attemps' = 0
    /\ audio_buffer' = 0
    /\ EnterIteration(buffer, current_pos, connected_mic, FALSE)
    /\ UNCHANGED <<connected_mic, fillHist, getVars, outVars>>

\* the accumulation buffer, the timeline and current_pos after a read of n bytes
AfterRead(n) ==
    LET total == audio_buffer + n
        buf == add_frame_to_buffer(buffer, Frame(Len(buffer), Min(CHUNK, total)))
    IN  IF MustCut(total)
        THEN [audio |-> total - Min(CHUNK, total), buf |-> buf,
              pos |-> Some(Len(buf) - 1), cut |-> TRUE]
        ELSE [audio |-> total, buf |-> buffer, pos |-> current_pos, cut |-> FALSE]

\* resumed from the sleep: recv returns n > 0 bytes, a frame is cut when the
\* accumulation buffer is long enough, and the next iteration is entered
RecvData(n) ==
    /\ Idle
    /\ fill_pc = "sleep"
    /\ audio_buffer' = AfterRead(n).audio
    /\ EnterIteration(AfterRead(n).buf, AfterRead(n).pos, connected_mic, FALSE)
    /\ held_over' = (held_over /\ ~AfterRead(n).cut)
    /\ lost_in_outage' = FALSE
    /\ UNCHANGED <<connected_mic, reconnection_attemps, connect_attempts,
                   consecutive_failures, getVars, outVars>>

\* resumed from the sleep: recv returns b"" or raises; the handler logs and
\* sleeps for the backoff
RecvBroken ==
    /\ Idle
    /\ fill_pc = "sleep"
    /\ fill_pc' = "backoff"
    /\ UNCHANGED <<stationVars, reconnection_attemps, audio_buffer, fillHist,
                   getVars, getHist, outVars>>

\* resumed from the backoff with attempts left: connect() succeeds, the
\* timeline is reset and the next iteration is entered
ReconnectOk ==
    /\ Idle
    /\ fill_pc = "backoff"
    /\ MayRetry(reconnection_attemps + 1, max_reconnection_attempts)
    /\ reconnection_attemps' = reconnection_attemps + 1
    /\ connected_mic' = TRUE
    /\ EnterIteration(AfterReconnect(buffer), None, TRUE, TRUE)
    /\ connect_attempts' = connect_attempts + 1
    /\ consecutive_failures' = 0
    /\ held_over' = (audio_buffer > 0)
    /\ lost_in_outage' = (lost_in_outage \/ Len(buffer) > 0)
    /\ UNCHANGED <<audio_buffer, getVars, outVars>>

\* resumed from the backoff with attempts left: connect() raises, and the
\* next iteration is entered
ReconnectFail ==
    /\ Idle
    /\ fill_pc = "backoff"
    /\ MayRetry(reconnection_attemps + 1, max_reconnection_attempts)
    /\ reconnection_attemps' = reconnection_attemps + 1
    /\ EnterIteration(buffer, current_pos, connected_mic, FALSE)
    /\ connect_attempts' = connect_attempts + 1
    /\ consecutive_failures' = consecutive_failures + 1
    /\ UNCHANGED <<connected_mic, audio_buffer, held_over, lost_in_outage,
                   getVars, outVars>>

\* resumed from the backoff with no attempt left: the loop is left
GiveUp ==
    /\ Idle
    /\ fill_pc = "backoff"
    /\ ~MayRetry(reconnection_attemps + 1, max_reconnection_attempts)
    /\ reconnection_attemps' = reconnection_attemps + 1
    /\ fill_pc' = "done"
    /\ UNCHANGED <<stationVars, audio_buffer, fillHist, getVars, getHist,
                   outVars>>

FillNext ==
    \/ StartFillBuffer
    \/ \E n \in ReadSizes : RecvData(n)
    \/ RecvBroken
    \/ ReconnectOk
    \/ ReconnectFail
    \/ GiveUp

\* ------------------------------------------------------------ AudioHandler
\* the cursor of a session that has set it
Cursor(s) == from_pos[s][1]

\* the indices of the frames of a slice
Indices(slice) == {slice[i].idx : i \in 1..Len(slice)}

\* the handler's fields, the slice of get() and the history of session s change
SetHandler(s, pc, pos, slice, stale) ==
    /\ get_pc' = [get_pc EXCEPT ![s] = pc]
    /\ from_pos' = [from_pos EXCEPT ![s] = pos]
    /\ client_buffer' = [client_buffer EXCEPT ![s] = slice]
    /\ cursor_stale' = [cursor_stale EXCEPT ![s] = stale]
    /\ UNCHANGED <<stationVars, fillVars, fillHist, is_client_connected>>

\* the request is over: the handler and the locals of its get() are dropped
Finished(s, how) == SetHandler(s, how, None, << >>, FALSE)

\* a loop head that does not look at the termination flag
LoopHead_deaf(s, cur) ==
    IF MustWait(PySlice(buffer, cur))
    THEN [pc |-> "sleep", slice |-> << >>]
    ELSE [pc |-> "transmit", slice |-> PySlice(buffer, cur)]

\* One pass through the head of get()'s loop with cursor cur: the loop test,
\* the pending slice and the backpressure test. It ends in the return of
\* get(), in the sleep (the slice, which the next pass replaces before it is
\* read, is dropped there) or at the Transcoder with the slice.
LoopHead(s, cur) ==
    IF ~is_client_connected[s]
    THEN [pc |-> "closed", slice |-> << >>]
    ELSE IF MustWait(PySlice(buffer, cur))
         THEN [pc |-> "sleep", slice |-> << >>]
         ELSE [pc |-> "transmit", slice |-> PySlice(buffer, cur)]

\* session s has just set its cursor to cur and goes through the loop head
EnterLoop(s, cur) ==
    IF LoopHead(s, cur).pc = "closed"
    THEN Finished(s, "closed")
    ELSE SetHandler(s, LoopHead(s, cur).pc, Some(cur), LoopHead(s, cur).slice,
                    FALSE)

\* a request arrives (the sessions are numbered in the order of arrival):
\* get() sets the cursor and enters its loop
Get(s) ==
    /\ Idle
    /\ get_pc[s] = "new"
    /\ \A t \in Sessions : t < s => get_pc[t] # "new"
    /\ EnterLoop(s, StartPos(buffer))
    /\ UNCHANGED outVars

\* resumed from the sleep, the loop test fails: get() returns
LoopExit(s) ==
    /\ Idle
    /\ get_pc[s] = "sleep"
    /\ LoopHead(s, Cursor(s)).pc = "closed"
    /\ Finished(s, "closed")
    /\ UNCHANGED outVars

\* resumed from the sleep, the pending slice is long enough: on to the
\* Transcoder. (Resumed to a slice that is too short, the session sleeps
\* again and nothing has changed.)
LoopSlice(s) ==
    /\ Idle
    /\ get_pc[s] = "sleep"
    /\ LoopHead(s, Cursor(s)).pc = "transmit"
    /\ SetHandler(s, "transmit", from_pos[s], LoopHead(s, Cursor(s)).slice,
                  cursor_stale[s])
    /\ UNCHANGED outVars

\* the Transcoder's chunks are written and flushed, the cursor is advanced and
\* the loop head is passed again (the Transcoder's files and the transport
\* are left out here; Transcode follows them)
TransmitOk(s) ==
    /\ get_pc[s] = "transmit"
    /\ EnterLoop(s, NextPos(buffer))
    /\ UNCHANGED outVars

\* transform_and_transmit raises: the exception leaves get()
TransmitFail(s) ==
    /\ get_pc[s] = "transmit"
    /\ Finished(s, "failed")
    /\ UNCHANGED outVars

\* every handler's flag is cleared
Disconnected_all(flags, s) == [t \in Sessions |-> FALSE]

\* the termination flags once the handler of session s is told of the close
Disconnected(flags, s) == [flags EXCEPT ![s] = FALSE]

\* the peer closes the connection while the request is being served
on_connection_close(s) ==
    /\ Idle
    /\ get_pc[s] = "sleep"
    /\ is_client_connected[s]
    /\ is_client_connected' = Disconnected(is_client_connected, s)
    /\ UNCHANGED <<stationVars, fillVars, fillHist, from_pos, client_buffer,
                   get_pc, getHist, outVars>>

GetNext(s) ==
    \/ Get(s)
    \/ LoopExit(s)
    \/ LoopSlice(s)
    \/ TransmitOk(s)
    \/ TransmitFail(s)
    \/ on_connection_close(s)

Next ==
    \/ Connect
    \/ FillNext
    \/ \E s \in Sessions : GetNext(s)

Spec == Init /\ [][Next]_vars

\* the station is configured with a reconnect budget of its own before the
\* loop is started
CfgInit == InitWith(ConfiguredAttempts)

CfgSpec == CfgInit /\ [][Next]_vars

\* ------------------------------------------- the Transcoder's files followed
\* One round of get() with the Transcoder's effects: output.wav is written
\* from the session's slice, output.mp3 is exported from it and read back in
\* chunks, the chunks are written to the session's transport and flushed, the
\* cursor is advanced and the loop head is passed again. Nothing is awaited
\* on the way.
Transcode(s) ==
    /\ get_pc[s] = "transmit"
    /\ output_wav' = WaveFile(output_wav, client_buffer[s])
    /\ output_mp3' = Export(output_wav')
    /\ last_flush' = [to |-> s, chunks |-> ReadChunks(output_mp3')]
    /\ EnterLoop(s, NextPos(buffer))

\* transform_and_transmit raises before output.wav is opened, in the export
\* with output.wav written, or later with both files written: the exception
\* leaves get() before the flush
TranscodeFail(s) ==
    /\ get_pc[s] = "transmit"
    /\ \E stage \in {"wave", "export", "read"} :
          /\ output_wav' = IF stage = "wave" THEN output_wav
                           ELSE WaveFile(output_wav, client_buffer[s])
          /\ output_mp3' = IF stage = "read" THEN Export(output_wav')
                           ELSE output_mp3
    /\ UNCHANGED last_flush
    /\ Finished(s, "failed")

\* The specification that follows the files has the ingestion loop and two
\* clients.
TranscodeSessions == {1, 2}

TranscodeNext ==
    \/ Connect
    \/ FillNext
    \/ \E s \in TranscodeSessions :
          \/ Get(s)
          \/ LoopExit(s)
          \/ LoopSlice(s)
          \/ Transcode(s)
          \/ TranscodeFail(s)
          \/ on_connection_close(s)

TranscodeSpec == Init /\ [][TranscodeNext]_vars

\* the steps the event loop takes for a session's coroutine
GetRun(s) == LoopExit(s) \/ LoopSlice(s) \/ TransmitOk(s) \/ TransmitFail(s)

\* a frame is appended to the timeline
Appends == \E n \in ReadSizes : RecvData(n) /\ AfterRead(n).cut

\* The liveness specification follows the ingestion loop and one client.
\* The event loop runs every coroutine that is ready again and again (its
\* ready queue is first-in first-out and every sleep ends), and a sleeping
\* session does not miss for ever the moments at which enough frames are
\* pending.
LiveSessions == {1}

LiveNext ==
    \/ Connect
    \/ FillNext
    \/ \E s \in LiveSessions : GetNext(s)

LiveSpec ==
    /\ Init
    /\ [][LiveNext]_vars
    /\ SF_vars(FillNext)
    /\ \A s \in LiveSessions : SF_vars(GetRun(s))

\* ------------------------------------------------------------- properties
\* session s is being served: its get() is in its loop
Serving(s) == get_pc[s] \in {"sleep", "transmit"}

\* a step in which session s sets its cursor
SetsCursor(s) == (Get(s) \/ TransmitOk(s)) /\ Serving(s)'

\* the frames of seq from index start to the end, in order
Suffix(seq, start) ==
    IF start >= Len(seq) THEN << >> ELSE SubSeq(seq, start + 1, Len(seq))

\* C1: the timeline never holds more than max_buffer_len frames, not even
\* right after an append; at every await of the loop (the top of the iteration
\* has reset a full timeline) it holds fewer; a step appends at most one
\* frame, and the step whose append fills the timeline leaves it empty.
C1_EvictionBound ==
    /\ [](Len(buffer) < max_buffer_len)
    /\ [](\A n \in ReadSizes : Len(AfterRead(n).buf) <= max_buffer_len)
    /\ [][Len(buffer') > Len(buffer) => Len(buffer') = Len(buffer) + 1]_vars
    /\ [][\A n \in ReadSizes :
            (RecvData(n) /\ Len(AfterRead(n).buf) >= max_buffer_len) =>
                buffer' = << >>]_vars

\* C1 witness: with no reconnect so far, a cursor is stale (an eviction has
\* reset the timeline) and a frame has been appended since.
C1_Witness ==
    /\ reconnection_attemps = 0
    /\ Len(buffer) >= 1
    /\ \E s \in Sessions : Serving(s) /\ cursor_stale[s]

\* C2: a session is at the Transcoder only with the pending slice of its
\* cursor and only when that slice (so the timeline too) has at least
\* client_buffer_min_length frames; a session goes to sleep at its loop test
\* only when fewer than client_buffer_min_length frames are pending.
C2_Backpressure ==
    /\ [](\A s \in Sessions :
            get_pc[s] = "transmit" =>
              /\ client_buffer[s] = PySlice(buffer, Cursor(s))
              /\ Len(client_buffer[s]) >= client_buffer_min_length
              /\ Len(buffer) >= client_buffer_min_length)
    /\ [][\A s \in Sessions :
            (get_pc[s] # "sleep" /\ get_pc'[s] = "sleep") =>
                Len(Suffix(buffer', from_pos'[s][1])) < client_buffer_min_length]_vars

\* C2 witness: a session whose cursor is 0 in the current epoch (as one
\* started on an empty timeline) is at the Transcoder with the whole timeline.
C2_Witness ==
    \E s \in Sessions :
        /\ get_pc[s] = "transmit"
        /\ Cursor(s) = 0
        /\ ~cursor_stale[s]
        /\ client_buffer[s] = buffer

\* C3: the loop never makes more than max_reconnection_attempts (5) connect
\* attempts, it has made exactly that many when it is left, and once it is
\* left the station, the loop's locals and its attempts do not change.
C3_ReconnectBound ==
    /\ [](connect_attempts <= DefaultMaxReconnectionAttempts)
    /\ [](fill_pc = "done" =>
            /\ connect_attempts = max_reconnection_attempts
            /\ connect_attempts = DefaultMaxReconnectionAttempts)
    /\ [][fill_pc = "done" => UNCHANGED <<stationVars, fillVars, fillHist>>]_vars

\* C3 witness: the loop is left after connect attempts that all failed.
C3_Witness ==
    /\ fill_pc = "done"
    /\ consecutive_failures = connect_attempts
    /\ connect_attempts = DefaultMaxReconnectionAttempts

\* C4 (as claimed): the loop is left only after max_reconnection_attempts
\* consecutive failed connect attempts.
C4_ConsecutiveOnly ==
    fill_pc = "done" => consecutive_failures >= max_reconnection_attempts

\* C5: no frame appended before the latest successful reconnect is in the
\* timeline, and the step of a successful reconnect leaves the timeline empty
\* with the loop at the sleep before its next read.
C5_ResetOnReconnect ==
    /\ [](\A i \in 1..Len(buffer) : ~buffer[i].old)
    /\ [][ReconnectOk => (buffer' = << >> /\ fill_pc' = "sleep")]_vars

\* C5 witness: the latest connect attempt of the loop succeeded and a frame
\* has been appended since.
C5_Witness ==
    /\ reconnection_attemps >= 1
    /\ consecutive_failures = 0
    /\ Len(buffer) >= 1

\* C6: when non-empty reads keep arriving, an empty timeline (at the start,
\* after an eviction, after a successful reconnect) gets a frame again.
C6_IngestionLiveness ==
    []<><<\E n \in ReadSizes : RecvData(n)>>_vars =>
        [](Len(buffer) = 0 => <>(Len(buffer) > 0))

\* C6 witness: the timeline has frames again after a successful reconnect
\* made a served session's cursor stale.
C6_Witness ==
    /\ Len(buffer) >= 1
    /\ consecutive_failures = 0
    /\ connect_attempts >= 1
    /\ \E s \in Sessions : Serving(s) /\ cursor_stale[s]

\* C7 (as claimed): a session that stays connected and served while frames
\* keep being appended transmits again and again.
C7_NoStarvation ==
    \A s \in LiveSessions :
        ([]<><<Appends>>_vars /\ <>[](Serving(s) /\ is_client_connected[s])) =>
            []<><<TransmitOk(s)>>_vars

\* C8 (as claimed): a slice is handed to the Transcoder only with a cursor
\* set in the current epoch, or with one re-anchored to the tail the reset
\* left (index 0).
C8_NoStaleCursorUsed ==
    \A s \in Sessions :
        get_pc[s] = "transmit" => (~cursor_stale[s] \/ Cursor(s) = 0)

\* C9: a served session's cursor is a natural number, its pending slice is
\* the run of the timeline's frames from that index on (empty when the cursor
\* is at or beyond the length), and the slice at the Transcoder is that run.
C9_CursorSafety ==
    \A s \in Sessions :
        Serving(s) =>
            /\ Cursor(s) \in Nat
            /\ PySlice(buffer, Cursor(s)) = Suffix(buffer, Cursor(s))
            /\ \A i \in 1..Len(PySlice(buffer, Cursor(s))) :
                   PySlice(buffer, Cursor(s))[i].idx = Cursor(s) + i - 1
            /\ Cursor(s) >= Len(buffer) => PySlice(buffer, Cursor(s)) = << >>
            /\ get_pc[s] = "transmit" => client_buffer[s] = Suffix(buffer, Cursor(s))

\* C9 witness: after a reset the timeline has a frame again, and a session
\* whose cursor is beyond it has taken an empty slice and sleeps.
C9_Witness ==
    \E s \in Sessions :
        /\ get_pc[s] = "sleep"
        /\ cursor_stale[s]
        /\ Len(buffer) >= 1
        /\ Cursor(s) >= Len(buffer)
        /\ client_buffer[s] = << >>

\* C10 (as claimed): a cursor is set to the length of the timeline, and after
\* a transmit none of the frames just written is pending again.
C10_CursorAtTail ==
    [][\A s \in Sessions :
        /\ SetsCursor(s) => from_pos'[s] = Some(Len(buffer'))
        /\ (TransmitOk(s) /\ Serving(s)') =>
              Indices(client_buffer[s])
                  \cap Indices(PySlice(buffer', from_pos'[s][1])) = {}]_vars

\* C11 (as claimed): when the Transcoder fails on a session's slice, the
\* session stays in its serving loop with its cursor unchanged.
C11_TranscodeFailureSkipped ==
    [][\A s \in Sessions :
        TransmitFail(s) => (Serving(s)' /\ from_pos'[s] = from_pos[s])]_vars

\* C12: a step that clears a session's termination flag changes nothing
\* else: not the station, the ingestion loop or its attempts, no cursor, no
\* slice, no position of any get(), no other session's flag; and every other
\* served session finds at its loop head what it would have found before.
C12_DisconnectIsolation ==
    [][\A s \in Sessions :
        (is_client_connected[s] /\ ~is_client_connected'[s]) =>
            /\ UNCHANGED <<stationVars, fillVars, fillHist, from_pos,
                           client_buffer, get_pc, cursor_stale>>
            /\ \A t \in Sessions \ {s} :
                  /\ is_client_connected'[t] = is_client_connected[t]
                  /\ Serving(t) =>
                        LoopHead(t, Cursor(t))' = LoopHead(t, Cursor(t))]_vars

\* C12 witness: one session has been told of its disconnect and has not yet
\* woken up, and another one, still connected, is at the Transcoder.
C12_Witness ==
    \E s, t \in Sessions :
        /\ s # t
        /\ ~is_client_connected[s] /\ get_pc[s] = "sleep"
        /\ is_client_connected[t] /\ get_pc[t] = "transmit"

\* C13: a session whose termination flag is cleared is asleep or closed; the
\* next step of its get() returns, without a new slice and without the
\* Transcoder; and with every ready coroutine run again and again it closes.
C13_SessionTermination ==
    /\ [](\A s \in Sessions :
            ~is_client_connected[s] => get_pc[s] \in {"sleep", "closed"})
    /\ [][\A s \in Sessions :
            (~is_client_connected[s] /\ get_pc[s] = "sleep") =>
                /\ get_pc'[s] \in {"sleep", "closed"}
                /\ client_buffer'[s] = << >>
                /\ GetRun(s) => get_pc'[s] = "closed"]_vars
    /\ \A s \in LiveSessions :
            (~is_client_connected[s]) ~> (get_pc[s] = "closed")

\* C13 witness: a session is closed after its disconnect while the ingestion
\* loop goes on and the timeline holds frames.
C13_Witness ==
    \E s \in LiveSessions :
        /\ get_pc[s] = "closed"
        /\ ~is_client_connected[s]
        /\ fill_pc = "sleep"
        /\ Len(buffer) >= 1

\* C14: while a session is served its cursor never decreases, whatever
\* resets of the timeline happen in between, and the slice at the Transcoder
\* holds frames of the timeline in the timeline's order.
C14_MonotoneCursor ==
    /\ [][\A s \in Sessions :
            (Serving(s) /\ Serving(s)') => Cursor(s)' >= Cursor(s)]_vars
    /\ [](\A s \in Sessions :
            get_pc[s] = "transmit" =>
                \A i, j \in 1..Len(client_buffer[s]) :
                    /\ buffer[client_buffer[s][i].idx + 1] = client_buffer[s][i]
                    /\ i < j => client_buffer[s][i].idx < client_buffer[s][j].idx)

\* C14 witness: a session is at the Transcoder with a cursor above 0 that it
\* set before the latest reset of the timeline, and will set it anew.
C14_Witness ==
    \E s \in Sessions :
        /\ get_pc[s] = "transmit"
        /\ cursor_stale[s]
        /\ Cursor(s) >= 1
        /\ NextPos(buffer) > Cursor(s)

\* C15 (as claimed): a frame is never cut from an accumulation buffer that
\* still starts with the bytes it held at the latest successful reconnect.
C15_PreOutageDiscarded ==
    [][\A n \in ReadSizes :
        (RecvData(n) /\ AfterRead(n).cut) => ~held_over]_vars

\* C16 (as claimed): when the loop is left, no reconnect has emptied a
\* timeline that held frames since the last read that delivered data: the
\* timeline is as it was before the first of the failing reads.
C16_FrozenOnExhaustion ==
    fill_pc = "done" => ~lost_in_outage

\* C17 (as claimed): the loop makes at most as many connect attempts as the
\* configured max_reconnection_attempts, and no step changes that field.
C17_ConfiguredBudget ==
    /\ [](connect_attempts <= ConfiguredAttempts)
    /\ [][max_reconnection_attempts' = max_reconnection_attempts]_vars

\* the timeline after the frame f is appended and the next iteration's top
\* has been passed
Committed(f) ==
    IF Len(buffer) + 1 >= max_buffer_len THEN << >> ELSE Append(buffer, f)

C19_ReadsOnlyConnected ==
    /\ fill_pc \in {"backoff", "done"} => ~connected_mic
    /\ fill_pc = "sleep" => (connected_mic /\ consecutive_failures = 0)

\* C20: a session's cursor is never negative, whatever the loop's resets and
\* the session's steps do in between (a start on an empty timeline and a reset
\* before the cursor is advanced included), and each slice that reaches the
\* Transcoder is taken from a cursor of 0 or more: it is the run of the
\* timeline's frames from that index on.
C20_CursorNeverNegative ==
    /\ [](\A s \in Sessions : from_pos[s] # None => Cursor(s) >= 0)
    /\ [][\A s \in Sessions :
            (get_pc'[s] = "transmit" /\ get_pc[s] # "transmit") =>
                /\ Cursor(s)' >= 0
                /\ client_buffer'[s] = Suffix(buffer', Cursor(s)')]_vars

\* C20 witness: a session that started on an empty timeline waits with cursor
\* 0, set before the latest reset, on a timeline that the reset left empty.
C20_Witness ==
    \E s \in Sessions :
        /\ get_pc[s] = "sleep"
        /\ cursor_stale[s]
        /\ Cursor(s) = 0
        /\ buffer = << >>
        /\ connect_attempts >= 1

\* the blocks of a sequence of chunks, in the order they were written
RECURSIVE Flatten(_)
Flatten(chunks) ==
    IF chunks = << >> THEN << >> ELSE Head(chunks) \o Flatten(Tail(chunks))

\* the frames a sequence of blocks, or a slice, was made from
Sources(blocks) == [i \in 1..Len(blocks) |-> blocks[i].src]
SliceFrames(slice) == [i \in 1..Len(slice) |-> slice[i].idx]

====
